---- MODULE Spec2Model ----
(***************************************************************************)
(* treepics: build-time proximity clustering (group_photos_by_proximity,   *)
(* Python) and the view-time engine of the generated js/map.js (dynamic    *)
(* re-clustering, date filtering, photo viewer).                           *)
(*                                                                         *)
(* Units.  Coordinates and thresholds are integers in units of             *)
(* 1/243000 degree, the coarsest unit in which 0.001, 0.002 and            *)
(* 0.03 * 3^(-6) are all whole numbers.  A capture timestamp is a whole    *)
(* number of days since 1970-01-01 (the EXIF resolution, coarsened from    *)
(* seconds to days); a JavaScript Date holds ticks, TicksPerStamp per      *)
(* timestamp unit, as a Date holds 1000 ms per EXIF second.  A missing     *)
(* value (None / null) is the empty tuple and a present value v is <<v>>.  *)
(***************************************************************************)
EXTENDS Integers, Sequences, FiniteSets, TLC

VARIABLES pc, df, photoClusters, allPhotos, filteredPhotos, currentZoom,
          currentMarkers, currentClusterPhotos, photoViewer,
          timelineStart, timelineEnd, selectedMonths,
          sliderStart, sliderEnd, listenersAttached, clearDisabled,
          lastEvent, call, deployment, gallery

vars == <<pc, df, photoClusters, allPhotos, filteredPhotos, currentZoom,
          currentMarkers, currentClusterPhotos, photoViewer,
          timelineStart, timelineEnd, selectedMonths,
          sliderStart, sliderEnd, listenersAttached, clearDisabled,
          lastEvent, call, deployment, gallery>>

----------------------------------------------------------------------------
(* Bounds and input sets *)

MaxPhotos == 3

Null == <<>>

Truthy(x) == x # Null

Val(x) == x[1]

\* The photo files a collection is drawn from.  p1, p2, p3 form a chain: each
\* is within 243 (0.001 degree) of the next on both axes and within 486
\* (0.002 degree) of it in the plane, and p1 and p3 are neither.  p4 shares
\* the coordinate and the timestamp of p3.  p5 has no timestamp; it is within
\* 243 of p1 on both axes and exactly 486 from p2.  The timestamps are
\* 1970-01-15, 1970-03-25 and 1970-06-02.
Catalog ==
  << [filename |-> "p1", latitude |-> 0,    longitude |-> 0,   datetime_taken |-> <<14>>],
     [filename |-> "p2", latitude |-> 243,  longitude |-> 243, datetime_taken |-> <<83>>],
     [filename |-> "p3", latitude |-> 486,  longitude |-> 243, datetime_taken |-> <<152>>],
     [filename |-> "p4", latitude |-> 486,  longitude |-> 243, datetime_taken |-> <<152>>],
     [filename |-> "p5", latitude |-> -243, longitude |-> 243, datetime_taken |-> Null] >>

SliderInputs == {0, 50, 100}

MonthInputs == {0, 5}

ZoomInputs == {10, 15}

ZoomLevels == 0..22

\* The largest photo count getMarkerSize is called with on its own.
MaxPhotoCount == 120

AllMonths == 0..11

----------------------------------------------------------------------------
(* Generic helpers *)

Max(a, b) == IF a >= b THEN a ELSE b

Min(a, b) == IF a <= b THEN a ELSE b

Abs(a) == IF a >= 0 THEN a ELSE -a

RECURSIVE Pow(_, _)
Pow(b, n) == IF n = 0 THEN 1 ELSE b * Pow(b, n - 1)

RECURSIVE SumSeq(_)
SumSeq(s) == IF s = <<>> THEN 0 ELSE Head(s) + SumSeq(Tail(s))

Range(s) == {s[i] : i \in DOMAIN s}

Map(s, F(_)) == [i \in DOMAIN s |-> F(s[i])]

\* No file occurs twice in a collection.
Distinct(s) == \A i, j \in DOMAIN s : i # j => s[i].filename # s[j].filename

\* Sequences of distinct catalog entries, at most n long.
RECURSIVE Collections(_)
Collections(n) ==
  IF n = 0 THEN {<<>>}
  ELSE LET shorter == Collections(n - 1)
       IN shorter \cup
          {t \in {Append(s, Catalog[i]) :
                    s \in {u \in shorter : Len(u) = n - 1}, i \in DOMAIN Catalog} :
             Distinct(t)}

\* The position of a photo file in the catalog.
CatalogIndex(photo) == CHOOSE i \in DOMAIN Catalog : Catalog[i] = photo

\* The collections a site is built from: those of at most n files that list
\* the files in catalog order or in the reverse of it.
Datasets(n) ==
  {c \in Collections(n) :
     \/ \A i, j \in DOMAIN c : i < j => CatalogIndex(c[i]) < CatalogIndex(c[j])
     \/ \A i, j \in DOMAIN c : i < j => CatalogIndex(c[i]) > CatalogIndex(c[j])}

\* Insert x in front of the first element whose key is strictly greater;
\* key is a function from elements to integers.
RECURSIVE InsertSorted(_, _, _)
InsertSorted(s, x, key) ==
  IF s = <<>> THEN <<x>>
  ELSE IF key[x] < key[Head(s)] THEN <<x>> \o s
  ELSE <<Head(s)>> \o InsertSorted(Tail(s), x, key)

\* Stable sort of the first n elements of s by ascending key.
RECURSIVE SortPrefix(_, _, _)
SortPrefix(s, n, key) ==
  IF n = 0 THEN <<>> ELSE InsertSorted(SortPrefix(s, n - 1, key), s[n], key)

StableSort(s, key) == SortPrefix(s, Len(s), key)

\* The elements of s whose index is in idx, in index order.
RECURSIVE Pick(_, _, _)
Pick(s, idx, i) ==
  IF i > Len(s) THEN <<>>
  ELSE IF i \in idx THEN <<s[i]>> \o Pick(s, idx, i + 1)
  ELSE Pick(s, idx, i + 1)

\* A number n/d (the result of a floating-point division, taken exactly).
Frac(n, d) == [n |-> n, d |-> d]

Number(x) == Frac(x, 1)

----------------------------------------------------------------------------
(* Build time: static_site_generator.py *)

proximity_threshold == 243

\* key=lambda x: x['datetime_taken'] if x['datetime_taken'] else ''
\* The key is the timestamp, or the empty string for a missing one.
SortKeyIsString(photo) == ~Truthy(photo.datetime_taken)

\* list.sort raises TypeError when it has to order a str key against a
\* timestamp key, that is whenever the list holds both kinds of key.
SortRaisesTypeError(photos) ==
  \E i, j \in DOMAIN photos :
     SortKeyIsString(photos[i]) /\ ~SortKeyIsString(photos[j])

PySortPhotos(photos) ==
  StableSort(photos,
             [p \in Range(photos) |->
                IF SortKeyIsString(p) THEN 0 ELSE Val(p.datetime_taken)])

\* WithinProximity with 'or' for 'and': one axis within the threshold is enough.
WithinProximityEitherAxis(row, row2, threshold) ==
  LET lat_diff == Abs(row.latitude - row2.latitude)
      lon_diff == Abs(row.longitude - row2.longitude)
  IN lat_diff <= threshold \/ lon_diff <= threshold

\* lat_diff <= proximity_threshold and lon_diff <= proximity_threshold
WithinProximity(row, row2, threshold) ==
  LET lat_diff == Abs(row.latitude - row2.latitude)
      lon_diff == Abs(row.longitude - row2.longitude)
  IN lat_diff <= threshold /\ lon_diff <= threshold

\* BuildCluster with photo_count set when the cluster is opened, not after
\* the rows are absorbed.
BuildClusterCountedAtSeed(members) ==
  LET photos == PySortPhotos(members)
      n == Len(photos)
  IN [center_lat |-> IF n > 1
                     THEN Frac(SumSeq(Map(photos, LAMBDA p : p.latitude)), n)
                     ELSE Number(members[1].latitude),
      center_lon |-> IF n > 1
                     THEN Frac(SumSeq(Map(photos, LAMBDA p : p.longitude)), n)
                     ELSE Number(members[1].longitude),
      photos |-> photos,
      photo_count |-> 1]

\* The cluster dict built for one seed row and the rows it absorbed.
BuildCluster(members) ==
  LET photos == PySortPhotos(members)
      n == Len(photos)
  IN [center_lat |-> IF n > 1
                     THEN Frac(SumSeq(Map(photos, LAMBDA p : p.latitude)), n)
                     ELSE Number(members[1].latitude),
      center_lon |-> IF n > 1
                     THEN Frac(SumSeq(Map(photos, LAMBDA p : p.longitude)), n)
                     ELSE Number(members[1].longitude),
      photos |-> photos,
      photo_count |-> n]

\* GroupRows without processed.add(idx2): an absorbed row is not marked.
RECURSIVE GroupRowsUnmarked(_, _, _, _)
GroupRowsUnmarked(rows, idx, processed, threshold) ==
  IF idx > Len(rows) THEN <<>>
  ELSE IF idx \in processed
       THEN GroupRowsUnmarked(rows, idx + 1, processed, threshold)
  ELSE LET nearby == {idx2 \in DOMAIN rows \ (processed \cup {idx}) :
                         WithinProximity(rows[idx], rows[idx2], threshold)}
           members == <<rows[idx]>> \o Pick(rows, nearby, 1)
       IN <<members>> \o
          GroupRowsUnmarked(rows, idx + 1, processed \cup {idx}, threshold)

\* The outer loop from row idx on; processed is the set of row indices
\* already assigned.  Yields the member lists in the order clusters open.
RECURSIVE GroupRows(_, _, _, _)
GroupRows(rows, idx, processed, threshold) ==
  IF idx > Len(rows) THEN <<>>
  ELSE IF idx \in processed THEN GroupRows(rows, idx + 1, processed, threshold)
  ELSE LET nearby == {idx2 \in DOMAIN rows \ (processed \cup {idx}) :
                         WithinProximity(rows[idx], rows[idx2], threshold)}
           members == <<rows[idx]>> \o Pick(rows, nearby, 1)
       IN <<members>> \o
          GroupRows(rows, idx + 1, processed \cup {idx} \cup nearby, threshold)

\* group_photos_by_proximity: the clusters, or raised = TRUE when the sort
\* of some cluster raises.
group_photos_by_proximity(rows, threshold) ==
  LET groups == GroupRows(rows, 1, {}, threshold)
  IN IF \E g \in DOMAIN groups : SortRaisesTypeError(groups[g])
     THEN [raised |-> TRUE, clusters |-> <<>>]
     ELSE [raised |-> FALSE, clusters |-> Map(groups, BuildCluster)]

----------------------------------------------------------------------------
(* View time: js/map.js, generated by generate_javascript *)

TicksPerStamp == 1000

\* new Date(value): the time value, truncated toward zero (TimeClip).
\* The value is the exact quotient n / d.
NewDateOfQuotient(n, d) == IF n >= 0 THEN n \div d ELSE -((-n) \div d)

\* new Date(photo.datetime_taken): parse the timestamp string.
NewDate(datetime_taken) == Val(datetime_taken) * TicksPerStamp

DaysBeforeMonth == <<0, 31, 59, 90, 120, 151, 181, 212, 243, 273, 304, 334>>

\* Date.prototype.getMonth, 0..11, in the calendar of 365-day years.
getMonth(date) ==
  LET dayOfYear == (date \div TicksPerStamp) % 365
  IN Cardinality({m \in 1..12 : DaysBeforeMonth[m] <= dayOfYear}) - 1

\* a.datetime_taken ? new Date(a.datetime_taken) : new Date(0)
DateOrEpoch(photo) ==
  IF Truthy(photo.datetime_taken) THEN NewDate(photo.datetime_taken) ELSE 0

\* Array.prototype.sort with the comparator dateA - dateB (stable).
SortByDate(photos) ==
  StableSort(photos, [p \in Range(photos) |-> DateOrEpoch(p)])

baseThreshold == 7290

minimumClusterDistance == 486

\* x * Math.pow(3, n) for an integer n of either sign.
TimesPow3(x, n) == IF n >= 0 THEN x * Pow(3, n) ELSE x \div Pow(3, -n)

\* getClusteringThreshold returning threshold, without the minimum.
getClusteringThresholdUnfloored(zoomLevel) ==
  LET zoomFactor == Max(1, 18 - zoomLevel)
  IN TimesPow3(baseThreshold, zoomFactor - 7)

getClusteringThreshold(zoomLevel) ==
  LET zoomFactor == Max(1, 18 - zoomLevel)
      threshold == TimesPow3(baseThreshold, zoomFactor - 7)
  IN Max(threshold, minimumClusterDistance)

\* Math.sqrt(latDiff * latDiff + lonDiff * lonDiff), kept as its radicand.
calculateDistance(lat1, lon1, lat2, lon2) ==
  LET latDiff == lat2 - lat1
      lonDiff == lon2 - lon1
  IN [radicand |-> latDiff * latDiff + lonDiff * lonDiff]

\* distance <= threshold, that is radicand <= threshold^2, decided on the
\* quotient radicand \div threshold so that no square is formed.
DistanceLeq(distance, threshold) ==
  LET r == distance.radicand
  IN IF threshold <= 0 THEN threshold = 0 /\ r = 0
     ELSE \/ r \div threshold < threshold
          \/ r \div threshold = threshold /\ r % threshold = 0

\* WithinDistance with distance < threshold: a photo exactly the threshold
\* away is not absorbed.
WithinDistanceExclusive(photo, otherPhoto, threshold) ==
  LET r == calculateDistance(photo.latitude, photo.longitude,
                             otherPhoto.latitude, otherPhoto.longitude).radicand
  IN threshold > 0 /\ r \div threshold < threshold

WithinDistance(photo, otherPhoto, threshold) ==
  DistanceLeq(calculateDistance(photo.latitude, photo.longitude,
                                otherPhoto.latitude, otherPhoto.longitude),
              threshold)

\* DynamicCluster without the averaging: the center stays the seed's.
DynamicClusterSeedCenter(members) ==
  [center_lat |-> Number(members[1].latitude),
   center_lon |-> Number(members[1].longitude),
   photos |-> SortByDate(members),
   photo_count |-> Len(members)]

DynamicCluster(members) ==
  LET n == Len(members)
  IN [center_lat |-> IF n > 1
                     THEN Frac(SumSeq(Map(members, LAMBDA p : p.latitude)), n)
                     ELSE Number(members[1].latitude),
      center_lon |-> IF n > 1
                     THEN Frac(SumSeq(Map(members, LAMBDA p : p.longitude)), n)
                     ELSE Number(members[1].longitude),
      photos |-> SortByDate(members),
      photo_count |-> n]

RECURSIVE ClusterPhotos(_, _, _, _)
ClusterPhotos(photos, index, processed, threshold) ==
  IF index > Len(photos) THEN <<>>
  ELSE IF index \in processed
       THEN ClusterPhotos(photos, index + 1, processed, threshold)
  ELSE LET nearby == {otherIndex \in DOMAIN photos \ (processed \cup {index}) :
                         WithinDistance(photos[index], photos[otherIndex], threshold)}
           members == <<photos[index]>> \o Pick(photos, nearby, 1)
       IN <<members>> \o
          ClusterPhotos(photos, index + 1, processed \cup {index} \cup nearby,
                        threshold)

performDynamicClustering(photos, threshold) ==
  Map(ClusterPhotos(photos, 1, {}, threshold), DynamicCluster)

\* getMarkerSize with photoCount < 5, < 10, < 20: the tiers end one early.
getMarkerSizeExclusive(photoCount) ==
  IF photoCount = 1 THEN 20
  ELSE IF photoCount < 5 THEN 25
  ELSE IF photoCount < 10 THEN 30
  ELSE IF photoCount < 20 THEN 35
  ELSE 40

getMarkerSize(photoCount) ==
  IF photoCount = 1 THEN 20
  ELSE IF photoCount <= 5 THEN 25
  ELSE IF photoCount <= 10 THEN 30
  ELSE IF photoCount <= 20 THEN 35
  ELSE 40

\* photoCount.toString().length for a positive integer.
RECURSIVE DecimalDigits(_)
DecimalDigits(n) == IF n < 10 THEN 1 ELSE 1 + DecimalDigits(n \div 10)

\* baseFontSize is kept in hundredths of a pixel, in which 0.4 * markerSize
\* and 0.8 times it are whole numbers for a whole markerSize.
getMarkerFontSize(photoCount, markerSize) ==
  LET digits == DecimalDigits(photoCount)
      baseFontSize == Max(1000, markerSize * 40)
      reduced == IF digits > 2 THEN (baseFontSize * 8) \div 10 ELSE baseFontSize
  IN Max(8, reduced \div 100)

\* L.marker([cluster.center_lat, cluster.center_lon], ...) with the count as
\* its label, an icon of getMarkerSize pixels, a label font of
\* getMarkerFontSize pixels and showPhotosForCluster(cluster) as its click
\* handler.
Marker(cluster) ==
  [latlng |-> <<cluster.center_lat, cluster.center_lon>>,
   label |-> cluster.photo_count,
   iconSize |-> getMarkerSize(cluster.photo_count),
   fontSize |-> getMarkerFontSize(cluster.photo_count,
                                  getMarkerSize(cluster.photo_count)),
   cluster |-> cluster]

addPhotoMarkers(markers, clusters) == markers \o Map(clusters, Marker)

\* The view state a handler reads and writes, as one record.
View ==
  [allPhotos |-> allPhotos, filteredPhotos |-> filteredPhotos,
   currentZoom |-> currentZoom, currentMarkers |-> currentMarkers,
   currentClusterPhotos |-> currentClusterPhotos, photoViewer |-> photoViewer,
   timelineStart |-> timelineStart, timelineEnd |-> timelineEnd,
   selectedMonths |-> selectedMonths,
   sliderStart |-> sliderStart, sliderEnd |-> sliderEnd,
   listenersAttached |-> listenersAttached, clearDisabled |-> clearDisabled,
   threw |-> FALSE]

\* updateMarkersForZoom without currentMarkers = []: the markers pile up.
updateMarkersForZoomKept(v) ==
  LET clusteringThreshold == getClusteringThreshold(v.currentZoom)
      dynamicClusters == performDynamicClustering(v.filteredPhotos,
                                                  clusteringThreshold)
  IN [v EXCEPT !.currentMarkers = addPhotoMarkers(v.currentMarkers, dynamicClusters)]

\* currentMarkers is emptied, then refilled from the filtered photos.
updateMarkersForZoom(v) ==
  LET clusteringThreshold == getClusteringThreshold(v.currentZoom)
      dynamicClusters == performDynamicClustering(v.filteredPhotos,
                                                  clusteringThreshold)
  IN [v EXCEPT !.currentMarkers = addPhotoMarkers(<<>>, dynamicClusters)]

\* The returned range; threw = TRUE is the TypeError of
\* timelineEnd.getTime() on a null timelineEnd.
updateTimelineFilter(v) ==
  IF v.sliderStart = 0 /\ v.sliderEnd = 100
  THEN [threw |-> FALSE, startDate |-> Null, endDate |-> Null]
  ELSE IF ~Truthy(v.timelineEnd)
  THEN [threw |-> TRUE, startDate |-> Null, endDate |-> Null]
  ELSE LET start == Val(v.timelineStart)
           totalTime == Val(v.timelineEnd) - start
       IN [threw |-> FALSE,
           startDate |-> <<NewDateOfQuotient(start * 100 + totalTime * v.sliderStart, 100)>>,
           endDate |-> <<NewDateOfQuotient(start * 100 + totalTime * v.sliderEnd, 100)>>]

\* PassesFilter with photoDate <= startDate: the lower bound is exclusive.
PassesFilterExclusive(photo, timelineRange, months) ==
  /\ Truthy(photo.datetime_taken)
  /\ LET photoDate == NewDate(photo.datetime_taken)
     IN /\ ~(Truthy(timelineRange.startDate) /\ photoDate <= Val(timelineRange.startDate))
        /\ ~(Truthy(timelineRange.endDate) /\ photoDate > Val(timelineRange.endDate))
        /\ getMonth(photoDate) \in months

\* PassesFilter with the month test in an else branch of the range test: a
\* date range switches the month filter off.
PassesFilterRangeOrMonth(photo, timelineRange, months) ==
  /\ Truthy(photo.datetime_taken)
  /\ LET photoDate == NewDate(photo.datetime_taken)
     IN IF Truthy(timelineRange.startDate)
        THEN /\ photoDate >= Val(timelineRange.startDate)
             /\ photoDate <= Val(timelineRange.endDate)
        ELSE getMonth(photoDate) \in months

\* The callback of allPhotos.filter in applyFilters.
PassesFilter(photo, timelineRange, months) ==
  /\ Truthy(photo.datetime_taken)
  /\ LET photoDate == NewDate(photo.datetime_taken)
     IN /\ ~(Truthy(timelineRange.startDate) /\ photoDate < Val(timelineRange.startDate))
        /\ ~(Truthy(timelineRange.endDate) /\ photoDate > Val(timelineRange.endDate))
        /\ getMonth(photoDate) \in months

updateClearFiltersButton(v) ==
  LET isTimelineFiltered == v.sliderStart > 0 \/ v.sliderEnd < 100
      isMonthFiltered == Cardinality(v.selectedMonths) < 12
  IN [v EXCEPT !.clearDisabled = ~isTimelineFiltered /\ ~isMonthFiltered]

\* updatePhotoViewer testing visiblePhotos.length < currentClusterPhotos.length:
\* the viewer is emptied as soon as one displayed photo is filtered out.
updatePhotoViewerAnyHidden(v) ==
  IF Len(v.currentClusterPhotos) > 0
  THEN LET visiblePhotos ==
             SelectSeq(v.currentClusterPhotos,
                       LAMBDA photo : \E i \in DOMAIN v.filteredPhotos :
                                         v.filteredPhotos[i].filename = photo.filename)
       IN IF Len(visiblePhotos) < Len(v.currentClusterPhotos)
          THEN [v EXCEPT !.photoViewer = "placeholder",
                         !.currentClusterPhotos = <<>>]
          ELSE v
  ELSE v

updatePhotoViewer(v) ==
  IF Len(v.currentClusterPhotos) > 0
  THEN LET visiblePhotos ==
             SelectSeq(v.currentClusterPhotos,
                       LAMBDA photo : \E i \in DOMAIN v.filteredPhotos :
                                         v.filteredPhotos[i].filename = photo.filename)
       IN IF Len(visiblePhotos) = 0
          THEN [v EXCEPT !.photoViewer = "placeholder",
                         !.currentClusterPhotos = <<>>]
          ELSE v
  ELSE v

applyFilters(v) ==
  LET timelineRange == updateTimelineFilter(v)
  IN IF timelineRange.threw THEN [v EXCEPT !.threw = TRUE]
     ELSE LET filtered ==
                [v EXCEPT !.filteredPhotos =
                   SelectSeq(v.allPhotos,
                             LAMBDA photo : PassesFilter(photo, timelineRange,
                                                         v.selectedMonths))]
          IN updatePhotoViewer(updateClearFiltersButton(updateMarkersForZoom(filtered)))

\* The set is updated first; monthBtn is null for an index no button carries,
\* and monthBtn.classList then ends the call in a TypeError.
toggleMonth(v, monthIndex) ==
  LET toggled == IF monthIndex \in v.selectedMonths
                 THEN [v EXCEPT !.selectedMonths = @ \ {monthIndex}]
                 ELSE [v EXCEPT !.selectedMonths = @ \cup {monthIndex}]
  IN IF monthIndex \in AllMonths THEN toggled ELSE [toggled EXCEPT !.threw = TRUE]

selectAllMonths(v) == applyFilters([v EXCEPT !.selectedMonths = AllMonths])

clearAllMonths(v) == applyFilters([v EXCEPT !.selectedMonths = {}])

\* selectAllMonths() applies the filters and applyFilters() runs once more;
\* an exception in the first call ends the handler.
clearAllFilters(v) ==
  LET reset == [v EXCEPT !.sliderStart = 0, !.sliderEnd = 100]
      selected == selectAllMonths(reset)
  IN IF selected.threw THEN selected ELSE applyFilters(selected)

\* The 'input' listener of the start slider: value is the position the user
\* dragged the handle to.
startSliderInput(v, value) ==
  LET moved == [v EXCEPT !.sliderStart = value]
  IN IF ~v.listenersAttached THEN moved
     ELSE LET clamped == IF moved.sliderStart > moved.sliderEnd
                         THEN [moved EXCEPT !.sliderStart = moved.sliderEnd]
                         ELSE moved
          IN IF updateTimelineFilter(clamped).threw
             THEN [clamped EXCEPT !.threw = TRUE]
             ELSE applyFilters(clamped)

endSliderInput(v, value) ==
  LET moved == [v EXCEPT !.sliderEnd = value]
  IN IF ~v.listenersAttached THEN moved
     ELSE LET clamped == IF moved.sliderEnd < moved.sliderStart
                         THEN [moved EXCEPT !.sliderEnd = moved.sliderStart]
                         ELSE moved
          IN IF updateTimelineFilter(clamped).threw
             THEN [clamped EXCEPT !.threw = TRUE]
             ELSE applyFilters(clamped)

\* The 'click' listener of a month button.
monthButtonClick(v, month) ==
  IF ~v.listenersAttached THEN v
  ELSE LET toggled == toggleMonth(v, month)
       IN IF toggled.threw THEN toggled ELSE applyFilters(toggled)

showPhotosForCluster(v, cluster) ==
  [v EXCEPT !.currentClusterPhotos = cluster.photos, !.photoViewer = "photos"]

\* zoomEnd calling applyFilters where the listener calls
\* updateMarkersForZoom: a zoom change filters the photos again.
zoomEndRefiltered(v, zoom) == applyFilters([v EXCEPT !.currentZoom = zoom])

\* The 'zoomend' listener.
zoomEnd(v, zoom) == updateMarkersForZoom([v EXCEPT !.currentZoom = zoom])

RECURSIVE Flatten(_)
Flatten(clusters) ==
  IF clusters = <<>> THEN <<>>
  ELSE Head(clusters).photos \o Flatten(Tail(clusters))

initializeDateFilters(v) ==
  IF Len(v.allPhotos) = 0 THEN v
  ELSE LET validPhotos == SelectSeq(v.allPhotos,
                                    LAMBDA photo : Truthy(photo.datetime_taken))
           dates == {NewDate(validPhotos[i].datetime_taken) : i \in DOMAIN validPhotos}
       IN IF Len(validPhotos) = 0 THEN v
          ELSE [v EXCEPT !.timelineStart = <<CHOOSE d \in dates : \A e \in dates : d <= e>>,
                         !.timelineEnd = <<CHOOSE d \in dates : \A e \in dates : d >= e>>,
                         !.listenersAttached = TRUE]

initializeMap(v, clusters) ==
  LET sorted == SortByDate(Flatten(clusters))
      loaded == [v EXCEPT !.allPhotos = sorted, !.filteredPhotos = sorted]
  IN updateMarkersForZoom(initializeDateFilters(loaded))

----------------------------------------------------------------------------
(* The state machine *)

\* The event a handler was fired for; threw tells that the handler ended in
\* an exception, invalidated that it emptied a displayed photo viewer, and
\* repeated that the event before it was the same event with the same
\* argument.
Event(kind, arg, threw, invalidated) ==
  [kind |-> kind, arg |-> arg, threw |-> threw, invalidated |-> invalidated,
   repeated |-> lastEvent.kind = kind /\ lastEvent.arg = arg]

\* The view state after a handler, written back to the variables.
SetView(v) ==
  /\ allPhotos' = v.allPhotos
  /\ filteredPhotos' = v.filteredPhotos
  /\ currentZoom' = v.currentZoom
  /\ currentMarkers' = v.currentMarkers
  /\ currentClusterPhotos' = v.currentClusterPhotos
  /\ photoViewer' = v.photoViewer
  /\ timelineStart' = v.timelineStart
  /\ timelineEnd' = v.timelineEnd
  /\ selectedMonths' = v.selectedMonths
  /\ sliderStart' = v.sliderStart
  /\ sliderEnd' = v.sliderEnd
  /\ listenersAttached' = v.listenersAttached
  /\ clearDisabled' = v.clearDisabled

\* No function is called on its own and no deployment script runs.
NoCall == [fn |-> "none"]

NoDeployment == [script |-> "none"]

\* let currentPhotoIndex = 0, with no photo modal in the document yet; image
\* is the file the modal shows.
NoModal == [currentPhotoIndex |-> 0, modal |-> "none", image |-> Null]

\* The module-level 'let' declarations of map.js and the controls as the
\* HTML template declares them, for a photo collection still to be built.
Init ==
  /\ pc = "build"
  /\ df \in Datasets(MaxPhotos)
  /\ photoClusters = <<>>
  /\ allPhotos = <<>>
  /\ filteredPhotos = <<>>
  /\ currentZoom = 10
  /\ currentMarkers = <<>>
  /\ currentClusterPhotos = <<>>
  /\ photoViewer = "placeholder"
  /\ timelineStart = Null
  /\ timelineEnd = Null
  /\ selectedMonths = AllMonths
  /\ sliderStart = 0
  /\ sliderEnd = 100
  /\ listenersAttached = FALSE
  /\ clearDisabled = TRUE
  /\ lastEvent = [kind |-> "none", arg |-> 0, threw |-> FALSE, repeated |-> FALSE,
                  invalidated |-> FALSE]
  /\ call = NoCall
  /\ deployment = NoDeployment
  /\ gallery = NoModal

\* generate_static_site: clusters = group_photos_by_proximity(web_df)
GenerateStaticSite ==
  /\ pc = "build"
  /\ LET result == group_photos_by_proximity(df, proximity_threshold)
     IN /\ pc' = IF result.raised THEN "build_failed" ELSE "built"
        /\ photoClusters' = result.clusters
        /\ lastEvent' = Event("build", 0, result.raised, FALSE)
  /\ UNCHANGED <<df, allPhotos, filteredPhotos, currentZoom, currentMarkers,
                 currentClusterPhotos, photoViewer, timelineStart, timelineEnd,
                 selectedMonths, sliderStart, sliderEnd, listenersAttached,
                 clearDisabled, call, deployment, gallery>>

\* DOMContentLoaded: initializeMap(photoClusters)
InitializeMap ==
  /\ pc = "built"
  /\ pc' = "view"
  /\ SetView(initializeMap(View, photoClusters))
  /\ lastEvent' = Event("load", 0, FALSE, FALSE)
  /\ UNCHANGED <<df, photoClusters, call, deployment, gallery>>

\* A handler of the running page: v is the view state it leaves.
Handle(kind, arg, v) ==
  /\ pc = "view"
  /\ SetView(v)
  /\ lastEvent' = Event(kind, arg, v.threw,
                        currentClusterPhotos # <<>> /\ v.currentClusterPhotos = <<>>)
  /\ UNCHANGED <<pc, df, photoClusters, call, deployment, gallery>>

ZoomEnd(zoom) == Handle("zoom", zoom, zoomEnd(View, zoom))

StartSliderInput(value) ==
  Handle("start", value, startSliderInput(View, value))

EndSliderInput(value) ==
  Handle("end", value, endSliderInput(View, value))

MonthButtonClick(month) ==
  Handle("month", month, monthButtonClick(View, month))

SelectAllMonths == Handle("selectAll", 0, selectAllMonths(View))

ClearAllMonths == Handle("clearMonths", 0, clearAllMonths(View))

\* The button is declared disabled and only updateClearFiltersButton
\* enables it; a disabled button fires no click.
ClearAllFilters ==
  /\ ~clearDisabled
  /\ Handle("clearFilters", 0, clearAllFilters(View))

MarkerClick(i) ==
  /\ i \in DOMAIN currentMarkers
  /\ Handle("marker", i, showPhotosForCluster(View, currentMarkers[i].cluster))

Next ==
  \/ GenerateStaticSite
  \/ InitializeMap
  \/ \E zoom \in ZoomInputs : ZoomEnd(zoom)
  \/ \E value \in SliderInputs : StartSliderInput(value)
  \/ \E value \in SliderInputs : EndSliderInput(value)
  \/ \E month \in MonthInputs : MonthButtonClick(month)
  \/ SelectAllMonths
  \/ ClearAllMonths
  \/ ClearAllFilters
  \/ \E i \in 1..MaxPhotos : MarkerClick(i)

Spec == Init /\ [][Next]_vars

\* The page under zoom changes alone, over the zoom levels 0..22.
NextZoom ==
  \/ GenerateStaticSite
  \/ InitializeMap
  \/ \E zoom \in ZoomLevels : ZoomEnd(zoom)

SpecZoom == Init /\ [][NextZoom]_vars

----------------------------------------------------------------------------
(* The photo gallery: the modal opened from the thumbnails of a cluster *)

\* The modal state a gallery function reads and writes, as one record.
Gallery ==
  [currentPhotoIndex |-> gallery.currentPhotoIndex, modal |-> gallery.modal,
   image |-> gallery.image, threw |-> FALSE]

\* photos is currentClusterPhotos, indexed from 0 by currentPhotoIndex; an
\* index without an element yields undefined, and photo.web_path is then a
\* TypeError.
updateModalPhoto(g, photos) ==
  IF Len(photos) = 0 THEN g
  ELSE IF g.currentPhotoIndex + 1 \notin DOMAIN photos THEN [g EXCEPT !.threw = TRUE]
  ELSE [g EXCEPT !.image = <<photos[g.currentPhotoIndex + 1].filename>>]

\* createPhotoModal appends the modal, which the style sheet does not display.
showPhotoGallery(g, photos, photoIndex) ==
  LET created == [g EXCEPT !.currentPhotoIndex = photoIndex,
                           !.modal = IF g.modal = "none" THEN "hidden" ELSE g.modal]
      updated == updateModalPhoto(created, photos)
  IN IF updated.threw THEN updated ELSE [updated EXCEPT !.modal = "block"]

navigateGallery(g, photos, direction) ==
  LET newIndex == g.currentPhotoIndex + direction
  IN IF newIndex >= 0 /\ newIndex < Len(photos)
     THEN updateModalPhoto([g EXCEPT !.currentPhotoIndex = newIndex], photos)
     ELSE g

\* The close button, a click on the backdrop and the Escape key.
closeModal(g) == [g EXCEPT !.modal = "hidden"]

\* A handler of the gallery: g is the modal state it leaves.
GalleryHandle(kind, arg, g) ==
  /\ pc = "view"
  /\ gallery' = [currentPhotoIndex |-> g.currentPhotoIndex, modal |-> g.modal,
                 image |-> g.image]
  /\ lastEvent' = Event(kind, arg, g.threw, FALSE)
  /\ UNCHANGED <<pc, df, photoClusters, allPhotos, filteredPhotos, currentZoom,
                 currentMarkers, currentClusterPhotos, photoViewer,
                 timelineStart, timelineEnd, selectedMonths,
                 sliderStart, sliderEnd, listenersAttached, clearDisabled,
                 call, deployment>>

\* onclick="showPhotoGallery(index)" of a thumbnail the photo viewer shows;
\* the displayed modal covers the thumbnails.
ShowPhotoGallery(photoIndex) ==
  /\ photoViewer = "photos"
  /\ gallery.modal # "block"
  /\ photoIndex + 1 \in DOMAIN currentClusterPhotos
  /\ GalleryHandle("thumbnail", photoIndex,
                   showPhotoGallery(Gallery, currentClusterPhotos, photoIndex))

\* The arrow keys while the modal is displayed (the buttons of the modal
\* call the same function).
NavigateGallery(direction) ==
  /\ gallery.modal = "block"
  /\ GalleryHandle("navigate", direction,
                   navigateGallery(Gallery, currentClusterPhotos, direction))

CloseModal ==
  /\ gallery.modal = "block"
  /\ GalleryHandle("close", 0, closeModal(Gallery))

\* The page with its gallery under marker clicks, thumbnail clicks, gallery
\* navigation, zoom changes and month filters.  A marker and a filter button
\* behind the displayed modal take no mouse click but stay in the tab order
\* and answer the keyboard.
NextGallery ==
  \/ GenerateStaticSite
  \/ InitializeMap
  \/ \E zoom \in ZoomInputs : ZoomEnd(zoom)
  \/ \E month \in MonthInputs : MonthButtonClick(month)
  \/ SelectAllMonths
  \/ ClearAllMonths
  \/ \E i \in 1..MaxPhotos : MarkerClick(i)
  \/ \E photoIndex \in 0..(MaxPhotos - 1) : ShowPhotoGallery(photoIndex)
  \/ \E direction \in {-1, 1} : NavigateGallery(direction)
  \/ CloseModal

SpecGallery == Init /\ [][NextGallery]_vars

----------------------------------------------------------------------------
(* The clustering passes and the marker functions, each called on its own *)

\* Everything but the call and the deployment.
pageVars == <<pc, df, photoClusters, allPhotos, filteredPhotos, currentZoom,
              currentMarkers, currentClusterPhotos, photoViewer,
              timelineStart, timelineEnd, selectedMonths,
              sliderStart, sliderEnd, listenersAttached, clearDisabled,
              lastEvent, gallery>>

\* The page of an empty collection, before anything ran.
IdlePage ==
  /\ df = <<>>
  /\ photoClusters = <<>>
  /\ allPhotos = <<>>
  /\ filteredPhotos = <<>>
  /\ currentZoom = 10
  /\ currentMarkers = <<>>
  /\ currentClusterPhotos = <<>>
  /\ photoViewer = "placeholder"
  /\ timelineStart = Null
  /\ timelineEnd = Null
  /\ selectedMonths = AllMonths
  /\ sliderStart = 0
  /\ sliderEnd = 100
  /\ listenersAttached = FALSE
  /\ clearDisabled = TRUE
  /\ lastEvent = [kind |-> "none", arg |-> 0, threw |-> FALSE, repeated |-> FALSE,
                  invalidated |-> FALSE]
  /\ gallery = NoModal

\* The scenario dataset, in units of 0.0001 degree: (40.0, -74.0) without a
\* timestamp, (40.0001, -74.0001) taken 2023-01-15 (day 19372) and
\* (41.0, -75.0) taken 2023-06-01 (day 19509).
ScenarioPhotos ==
  << [filename |-> "P1", latitude |-> 400000, longitude |-> -740000,
      datetime_taken |-> Null],
     [filename |-> "P2", latitude |-> 400001, longitude |-> -740001,
      datetime_taken |-> <<19372>>],
     [filename |-> "P3", latitude |-> 410000, longitude |-> -750000,
      datetime_taken |-> <<19509>>] >>

\* 0.001 degree in units of 0.0001 degree.
ScenarioThreshold == 10

\* 0.001 and 0.002 degree.
ThresholdInputs == {proximity_threshold, minimumClusterDistance}

\* The rows are in the order initializeMap leaves the photos in.
SortedByDate(rows) == SortByDate(rows) = rows

\* A call of the passes on the same rows with the same threshold, the build
\* pass on rows in any order, the view pass on rows ordered by date; build
\* and view hold what each pass returned, once it has.
ClusterCall(rows, threshold) ==
  [fn |-> "cluster", rows |-> rows, threshold |-> threshold,
   build |-> Null, view |-> Null]

MarkerSizeCall(photoCount) ==
  [fn |-> "getMarkerSize", photoCount |-> photoCount, size |-> Null]

\* A call of getMarkerFontSize with the arguments addPhotoMarkers passes.
MarkerFontSizeCall(photoCount) ==
  [fn |-> "getMarkerFontSize", photoCount |-> photoCount,
   markerSize |-> getMarkerSize(photoCount), fontSize |-> Null]

\* The indices toggleMonth is called with: months of the calendar and the
\* integers next to them on either side.
MonthIndexInputs == {-1, 0, 5, 11, 12}

\* The selections toggleMonth is called on.
SelectionInputs == {AllMonths, {}, {5}, AllMonths \ {0}}

\* A call of toggleMonth on a selection; selectedMonths and threw hold the
\* selection it leaves and whether it ended in an exception, once it has.
ToggleMonthCall(selection, monthIndex) ==
  [fn |-> "toggleMonth", selection |-> selection, monthIndex |-> monthIndex,
   selectedMonths |-> Null, threw |-> Null]

CallInputs ==
  {ClusterCall(rows, threshold) : rows \in Collections(MaxPhotos),
                                  threshold \in ThresholdInputs}
  \cup {ClusterCall(ScenarioPhotos, ScenarioThreshold)}
  \cup {MarkerSizeCall(photoCount) : photoCount \in 1..MaxPhotoCount}
  \cup {MarkerFontSizeCall(photoCount) : photoCount \in 1..MaxPhotoCount}
  \cup {ToggleMonthCall(selection, monthIndex) :
          selection \in SelectionInputs, monthIndex \in MonthIndexInputs}

InitCalls ==
  /\ pc = "call"
  /\ IdlePage
  /\ call \in CallInputs
  /\ deployment = NoDeployment

CallGroupPhotos ==
  /\ call.fn = "cluster"
  /\ call.build = Null
  /\ call' = [call EXCEPT !.build =
                 <<group_photos_by_proximity(call.rows, call.threshold)>>]
  /\ UNCHANGED <<pageVars, deployment>>

CallPerformDynamicClustering ==
  /\ call.fn = "cluster"
  /\ call.view = Null
  /\ SortedByDate(call.rows)
  /\ call' = [call EXCEPT !.view =
                 <<performDynamicClustering(call.rows, call.threshold)>>]
  /\ UNCHANGED <<pageVars, deployment>>

CallGetMarkerSize ==
  /\ call.fn = "getMarkerSize"
  /\ call.size = Null
  /\ call' = [call EXCEPT !.size = <<getMarkerSize(call.photoCount)>>]
  /\ UNCHANGED <<pageVars, deployment>>

CallGetMarkerFontSize ==
  /\ call.fn = "getMarkerFontSize"
  /\ call.fontSize = Null
  /\ call' = [call EXCEPT !.fontSize =
                 <<getMarkerFontSize(call.photoCount, call.markerSize)>>]
  /\ UNCHANGED <<pageVars, deployment>>

CallToggleMonth ==
  /\ call.fn = "toggleMonth"
  /\ call.threw = Null
  /\ LET v == toggleMonth([View EXCEPT !.selectedMonths = call.selection],
                          call.monthIndex)
     IN call' = [call EXCEPT !.selectedMonths = <<v.selectedMonths>>,
                             !.threw = <<v.threw>>]
  /\ UNCHANGED <<pageVars, deployment>>

NextCalls ==
  \/ CallGroupPhotos
  \/ CallPerformDynamicClustering
  \/ CallGetMarkerSize
  \/ CallGetMarkerFontSize
  \/ CallToggleMonth

SpecCalls == InitCalls /\ [][NextCalls]_vars

----------------------------------------------------------------------------
(* The deploy scripts: src/deploy.py and src/treepics-map/deploy.py *)

\* What a script finds when it starts: whether it runs in a git repository,
\* whether the generated site and its index.html exist, whether
\* 'git status --porcelain' reports a change, whether refs/heads/gh-pages and
\* refs/remotes/origin/gh-pages exist, whether the site differs from the
\* content of gh-pages, and whether the site build, 'git fetch' and
\* 'git push' succeed.
Environments(script) ==
  [script : {script},
   isGitRepo : IF script = "deploy.py" THEN BOOLEAN ELSE {TRUE},
   siteExists : IF script = "deploy.py" THEN BOOLEAN ELSE {TRUE},
   indexExists : IF script = "deploy.py" THEN BOOLEAN ELSE {TRUE},
   dirty : BOOLEAN,
   localBranch : BOOLEAN,
   remoteBranch : BOOLEAN,
   differs : BOOLEAN,
   buildOk : IF script = "deploy.py" THEN {TRUE} ELSE BOOLEAN,
   fetchOk : IF script = "deploy.py" THEN BOOLEAN ELSE {TRUE},
   pushOk : BOOLEAN]

\* A script about to run in an environment: the repository is on the branch
\* the user works on, nothing was fetched, no file of the working tree was
\* replaced, nothing is staged, nothing is committed or pushed.
Started(env) ==
  [script |-> env.script, step |-> "start",
   isGitRepo |-> env.isGitRepo, siteExists |-> env.siteExists,
   indexExists |-> env.indexExists, dirty |-> env.dirty,
   localBranch |-> env.localBranch, remoteBranch |-> env.remoteBranch,
   differs |-> env.differs, buildOk |-> env.buildOk, fetchOk |-> env.fetchOk,
   pushOk |-> env.pushOk,
   branch |-> "current_branch", fetchRun |-> FALSE, filesReplaced |-> FALSE,
   staged |-> FALSE, stagedAfterAdd |-> FALSE, has_changes |-> FALSE,
   committed |-> FALSE, pushed |-> FALSE, exit |-> Null]

\* sys.exit(code), or the return of the script for code 0.
Exit(d, code) == [d EXCEPT !.step = "exit", !.exit = <<code>>]

\* run_command: subprocess.run raises CalledProcessError only for a failing
\* command run with check=True, and run_command turns that into sys.exit(1);
\* no CalledProcessError leaves run_command.
run_command(succeeds, check) ==
  IF succeeds \/ ~check THEN "returned" ELSE "exited"

\* 'git checkout gh-pages' finds the local branch or creates it from the one
\* remote-tracking branch of that name.
CheckoutGhPagesSucceeds(d) == d.localBranch \/ d.remoteBranch

\* branch_exists / remote_branch_exists: True unless run_command raises.
branch_exists(refExists) == run_command(refExists, FALSE) # "raised"

\* RootValidate without the 'git status --porcelain' check.
RootValidateAnyStatus(d) ==
  IF ~d.isGitRepo THEN Exit(d, 1)
  ELSE IF ~d.siteExists \/ ~d.indexExists THEN Exit(d, 1)
  ELSE [d EXCEPT !.step = "fetch"]

\* deploy(), lines 90-104: the checks before anything is touched.
RootValidate(d) ==
  IF ~d.isGitRepo THEN Exit(d, 1)
  ELSE IF ~d.siteExists \/ ~d.indexExists THEN Exit(d, 1)
  ELSE IF d.dirty THEN Exit(d, 1)
  ELSE [d EXCEPT !.step = "fetch"]

\* deploy(), lines 106-119: copy the site aside, 'git fetch origin'.
RootFetch(d) ==
  LET fetched == [d EXCEPT !.fetchRun = TRUE]
  IN IF run_command(d.fetchOk, TRUE) = "exited" THEN Exit(fetched, 1)
     ELSE [fetched EXCEPT !.step = "checkout"]

\* deploy(), lines 121-156: gh-pages is checked out, reset to origin/gh-pages
\* and emptied; the else branch needs branch_exists to return False.
RootCheckout(d) ==
  IF branch_exists(d.localBranch)
  THEN IF run_command(CheckoutGhPagesSucceeds(d), TRUE) = "exited" THEN Exit(d, 1)
       ELSE LET on == [d EXCEPT !.branch = "gh-pages", !.localBranch = TRUE]
            IN IF branch_exists(d.remoteBranch)
                  /\ run_command(d.remoteBranch, TRUE) = "exited"
               THEN Exit(on, 1)
               ELSE [on EXCEPT !.filesReplaced = TRUE, !.step = "copy"]
  ELSE [d EXCEPT !.branch = "gh-pages", !.localBranch = TRUE,
                 !.filesReplaced = TRUE, !.step = "copy"]

\* deploy(), lines 158-179: the site is copied to the root and 'git add .'
\* stages what differs from the branch.
RootCopySite(d) ==
  [d EXCEPT !.filesReplaced = TRUE, !.staged = d.differs,
            !.stagedAfterAdd = d.differs, !.step = "detect"]

\* deploy(), lines 181-189: has_changes is set in the handler of a
\* CalledProcessError raised by run_command(..., check=False).
RootDetectChanges(d) ==
  [d EXCEPT !.has_changes = run_command(~d.staged, FALSE) = "raised",
            !.step = "commit"]

\* deploy(), lines 191-201.
RootCommitPush(d) ==
  IF d.has_changes
  THEN LET committed == [d EXCEPT !.committed = TRUE, !.staged = FALSE]
       IN IF run_command(d.pushOk, TRUE) = "exited" THEN Exit(committed, 1)
          ELSE [committed EXCEPT !.pushed = TRUE, !.step = "restore"]
  ELSE [d EXCEPT !.step = "restore"]

\* deploy(), lines 203-213: 'git reset --hard HEAD' and the checkout of the
\* branch the script started on.
RootRestore(d) ==
  Exit([d EXCEPT !.staged = FALSE, !.branch = "current_branch"], 0)

\* main(), lines 39-67: the site build and the check for uncommitted changes
\* to source files.
MapBuildAndCheck(d) ==
  IF run_command(d.buildOk, TRUE) = "exited" THEN Exit(d, 1)
  ELSE IF d.dirty THEN Exit(d, 1)
  ELSE [d EXCEPT !.step = "checkout"]

\* main(), lines 69-89: gh-pages is checked out, or created as an orphan
\* branch (which has no commit yet) and emptied.
MapSetupBranch(d) ==
  IF d.localBranch
  THEN [d EXCEPT !.branch = "gh-pages", !.step = "copy"]
  ELSE [d EXCEPT !.branch = "gh-pages", !.filesReplaced = TRUE, !.step = "copy"]

\* main(), lines 91-129: back to the source branch for the built site (an
\* orphan branch without a commit is gone by then), then gh-pages again,
\* which is emptied and filled with the site.
MapCopySite(d) ==
  LET back == [d EXCEPT !.branch = "current_branch"]
  IN IF run_command(CheckoutGhPagesSucceeds(back), TRUE) = "exited"
     THEN Exit(back, 1)
     ELSE [back EXCEPT !.branch = "gh-pages", !.localBranch = TRUE,
                       !.filesReplaced = TRUE, !.step = "commit"]

\* main(), lines 131-149: 'git add .', then run_command("git diff --staged
\* --quiet"), which exits the script when the command reports changes; the
\* commit and push stand in the handler of a CalledProcessError.
MapCommitPush(d) ==
  LET added == [d EXCEPT !.staged = d.differs, !.stagedAfterAdd = d.differs]
      diff == run_command(~added.staged, TRUE)
  IN IF diff = "exited" THEN Exit(added, 1)
     ELSE IF diff = "raised"
     THEN LET committed == [added EXCEPT !.committed = TRUE, !.staged = FALSE]
          IN IF run_command(d.pushOk, TRUE) = "exited" THEN Exit(committed, 1)
             ELSE [committed EXCEPT !.pushed = TRUE, !.step = "restore"]
     ELSE [added EXCEPT !.step = "restore"]

\* main(), lines 151-182: back to the branch the script started on, then
\* the closing messages.
MapRestore(d) == Exit([d EXCEPT !.branch = "current_branch"], 0)

InitDeploy ==
  /\ pc = "deploy"
  /\ IdlePage
  /\ call = NoCall
  /\ deployment \in {Started(env) : env \in Environments("deploy.py")
                                          \cup Environments("treepics-map/deploy.py")}

\* A step of a running script.
Step(script, step, after) ==
  /\ deployment.script = script
  /\ deployment.step = step
  /\ deployment' = after
  /\ UNCHANGED <<pageVars, call>>

RootValidateStep == Step("deploy.py", "start", RootValidate(deployment))

RootFetchStep == Step("deploy.py", "fetch", RootFetch(deployment))

RootCheckoutStep == Step("deploy.py", "checkout", RootCheckout(deployment))

RootCopySiteStep == Step("deploy.py", "copy", RootCopySite(deployment))

RootDetectChangesStep == Step("deploy.py", "detect", RootDetectChanges(deployment))

RootCommitPushStep == Step("deploy.py", "commit", RootCommitPush(deployment))

RootRestoreStep == Step("deploy.py", "restore", RootRestore(deployment))

MapBuildAndCheckStep ==
  Step("treepics-map/deploy.py", "start", MapBuildAndCheck(deployment))

MapSetupBranchStep ==
  Step("treepics-map/deploy.py", "checkout", MapSetupBranch(deployment))

MapCopySiteStep == Step("treepics-map/deploy.py", "copy", MapCopySite(deployment))

MapCommitPushStep ==
  Step("treepics-map/deploy.py", "commit", MapCommitPush(deployment))

MapRestoreStep == Step("treepics-map/deploy.py", "restore", MapRestore(deployment))

NextDeploy ==
  \/ RootValidateStep
  \/ RootFetchStep
  \/ RootCheckoutStep
  \/ RootCopySiteStep
  \/ RootDetectChangesStep
  \/ RootCommitPushStep
  \/ RootRestoreStep
  \/ MapBuildAndCheckStep
  \/ MapSetupBranchStep
  \/ MapCopySiteStep
  \/ MapCommitPushStep
  \/ MapRestoreStep

SpecDeploy == InitDeploy /\ [][NextDeploy]_vars

----------------------------------------------------------------------------
(* Properties *)

Built == pc \in {"built", "view"}

Viewing == pc = "view"

\* The clusters behind the displayed markers.
DisplayedClusters == Map(currentMarkers, LAMBDA marker : marker.cluster)

\* How many entries of the clusters' photo lists are the record.
RECURSIVE Occurrences(_, _)
Occurrences(record, clusters) ==
  IF clusters = <<>> THEN 0
  ELSE Cardinality({i \in DOMAIN Head(clusters).photos :
                       Head(clusters).photos[i] = record})
       + Occurrences(record, Tail(clusters))

IsPartition(clusters, records) ==
  /\ \A i \in DOMAIN records : Occurrences(records[i], clusters) = 1
  /\ \A c \in DOMAIN clusters :
        \A i \in DOMAIN clusters[c].photos :
           clusters[c].photos[i] \in Range(records)

\* C1: every input record is a member of exactly one cluster, exactly once,
\* after build-time clustering (of the collection) and after view-time
\* clustering (of the active subset); no cluster holds anything else.
PartitionProperty ==
  /\ Built => IsPartition(photoClusters, df)
  /\ Viewing => IsPartition(DisplayedClusters, filteredPhotos)

\* C1 witness: the view shows several clusters, one of them with two photos at
\* the same coordinate, over a collection the build clustered into several.
PartitionWitness ==
  /\ Viewing
  /\ Len(photoClusters) > 1
  /\ Len(currentMarkers) > 1
  /\ \E m \in DOMAIN currentMarkers :
        \E i, j \in DOMAIN currentMarkers[m].cluster.photos :
           /\ i # j
           /\ currentMarkers[m].cluster.photos[i].latitude
                = currentMarkers[m].cluster.photos[j].latitude
           /\ currentMarkers[m].cluster.photos[i].longitude
                = currentMarkers[m].cluster.photos[j].longitude

\* x is the arithmetic mean of the numbers: x * count = sum.
IsMeanOf(x, numbers) ==
  x.d > 0 /\ x.n * Len(numbers) = SumSeq(numbers) * x.d

CenterCorrect(cluster) ==
  LET k == Len(cluster.photos)
      lats == Map(cluster.photos, LAMBDA p : p.latitude)
      lons == Map(cluster.photos, LAMBDA p : p.longitude)
  IN /\ k >= 1
     /\ k > 1 => IsMeanOf(cluster.center_lat, lats) /\ IsMeanOf(cluster.center_lon, lons)
     /\ k = 1 => /\ cluster.center_lat = Number(lats[1])
                 /\ cluster.center_lon = Number(lons[1])

\* C2: the center of a cluster of k > 1 members is the arithmetic mean of the
\* members' latitudes and longitudes; the center of a cluster of one member
\* is that member's coordinate itself.
CenterCorrectness ==
  /\ Built => \A c \in DOMAIN photoClusters : CenterCorrect(photoClusters[c])
  /\ Viewing => \A m \in DOMAIN currentMarkers :
                   CenterCorrect(currentMarkers[m].cluster)

\* C2 witness: a displayed cluster of several members whose mean differs from
\* its seed's coordinate, next to a displayed cluster of one member.
CenterWitness ==
  /\ Viewing
  /\ \E m \in DOMAIN currentMarkers :
        /\ currentMarkers[m].label > 1
        /\ \E i \in DOMAIN currentMarkers[m].cluster.photos :
              ~IsMeanOf(currentMarkers[m].cluster.center_lat,
                        <<currentMarkers[m].cluster.photos[i].latitude>>)
  /\ \E m \in DOMAIN currentMarkers : currentMarkers[m].label = 1
  /\ \E c \in DOMAIN photoClusters : photoClusters[c].photo_count > 1

FilterKinds == {"start", "end", "month", "selectAll", "clearMonths", "clearFilters"}

\* The last event was a filter action.
AfterFilterAction == Viewing /\ lastEvent.kind \in FilterKinds

\* The last event ran applyFilters to its end: a listener of the sliders and
\* month buttons runs only where initializeDateFilters registered it.
FiltersApplied ==
  /\ AfterFilterAction
  /\ ~lastEvent.threw
  /\ lastEvent.kind \in {"start", "end", "month"} => listenersAttached

DatedTimes == {NewDate(allPhotos[i].datetime_taken) :
                 i \in {j \in DOMAIN allPhotos : Truthy(allPhotos[j].datetime_taken)}}

EarliestTime == CHOOSE t \in DatedTimes : \A u \in DatedTimes : t <= u

LatestTime == CHOOSE t \in DatedTimes : \A u \in DatedTimes : t >= u

\* min + (max - min) * s / 100 <= t <= min + (max - min) * e / 100 and the
\* month of t is in M, for a photo with a timestamp t.
InStatedRange(photo, s, e, M) ==
  /\ Truthy(photo.datetime_taken)
  /\ LET t == NewDate(photo.datetime_taken)
     IN /\ (EarliestTime * 100) + (LatestTime - EarliestTime) * s <= t * 100
        /\ t * 100 <= (EarliestTime * 100) + (LatestTime - EarliestTime) * e
        /\ getMonth(t) \in M

NoFiltersActive ==
  sliderStart = 0 /\ sliderEnd = 100 /\ selectedMonths = AllMonths

\* C4: whenever the sliders are at 0 and 100 and all twelve months are
\* selected, at startup and after any filter actions that lead back there,
\* the active subset is the full dataset, photos without a timestamp
\* included.
RoundTripIdentity ==
  Viewing /\ NoFiltersActive => filteredPhotos = allPhotos

\* The sub-collection of a that is also in b.
Intersection(a, b) == SelectSeq(a, LAMBDA photo : photo \in Range(b))

\* The active subset applyFilters leaves for the given sliders and months.
ActiveSubsetFor(s, e, M) ==
  applyFilters([View EXCEPT !.sliderStart = s, !.sliderEnd = e,
                            !.selectedMonths = M]).filteredPhotos

\* C5: the active subset under both filters is the intersection of the
\* active subset under the date range alone (all months selected) and the
\* active subset under the months alone (sliders at 0 and 100).
FilterAndComposition ==
  FiltersApplied =>
    filteredPhotos = Intersection(ActiveSubsetFor(sliderStart, sliderEnd, AllMonths),
                                  ActiveSubsetFor(0, 100, selectedMonths))

\* C5 witness: each filter alone keeps a photo the other drops, and a photo
\* passes both.
FilterAndCompositionWitness ==
  /\ FiltersApplied
  /\ filteredPhotos # <<>>
  /\ \E i \in DOMAIN allPhotos :
        /\ allPhotos[i] \in Range(ActiveSubsetFor(sliderStart, sliderEnd, AllMonths))
        /\ allPhotos[i] \notin Range(ActiveSubsetFor(0, 100, selectedMonths))
  /\ \E i \in DOMAIN allPhotos :
        /\ allPhotos[i] \notin Range(ActiveSubsetFor(sliderStart, sliderEnd, AllMonths))
        /\ allPhotos[i] \in Range(ActiveSubsetFor(0, 100, selectedMonths))

\* C6: after every start-slider input, end-slider input and clearAllFilters
\* the start position is at most the end position where the filter is
\* applied, and a slider input sets the moved handle to the input position,
\* or to the other handle's position when the input would cross it, and
\* leaves the other handle where it was.
SliderOrdering ==
  [][Viewing /\ lastEvent'.kind \in {"start", "end", "clearFilters"} =>
       /\ FiltersApplied' => sliderStart' <= sliderEnd'
       /\ lastEvent'.kind = "start" =>
            /\ sliderStart' = Min(lastEvent'.arg, sliderEnd)
            /\ sliderEnd' = sliderEnd
       /\ lastEvent'.kind = "end" =>
            /\ sliderEnd' = Max(lastEvent'.arg, sliderStart)
            /\ sliderStart' = sliderStart]_vars

\* C7: the clustering threshold is never below 0.002 degree, and a zoom
\* change to a higher level never raises it.
ThresholdMonotonicity ==
  /\ [](Viewing => getClusteringThreshold(currentZoom) >= minimumClusterDistance)
  /\ [][Viewing /\ currentZoom < currentZoom' =>
          getClusteringThreshold(currentZoom') <= getClusteringThreshold(currentZoom)]_vars

\* C7 witness: the map was zoomed beyond level 18, where the floor and not
\* the exponential decides the threshold.
ThresholdWitness ==
  /\ Viewing
  /\ lastEvent.kind = "zoom"
  /\ currentZoom > 18
  /\ TimesPow3(baseThreshold, Max(1, 18 - currentZoom) - 7) < minimumClusterDistance
  /\ getClusteringThreshold(currentZoom) < getClusteringThreshold(10)

\* C8: a zoom-changed event that repeats the zoom value of the zoom-changed
\* event just before it leaves the displayed clusters (members, order, centers,
\* counts), the active subset and the full photo list as they were.
ZoomIdempotence ==
  [][Viewing /\ lastEvent'.kind = "zoom" /\ lastEvent'.repeated =>
       /\ currentMarkers' = currentMarkers
       /\ filteredPhotos' = filteredPhotos
       /\ allPhotos' = allPhotos]_vars

\* C8 witness: the same zoom value twice in a row, over several displayed
\* clusters of a filtered subset.
ZoomIdempotenceWitness ==
  /\ Viewing
  /\ lastEvent.kind = "zoom"
  /\ lastEvent.repeated
  /\ Len(currentMarkers) > 1
  /\ filteredPhotos # allPhotos

\* The page has a handler for the last event: the buttons 'All', 'None' and
\* 'Clear All Filters' carry theirs in the template, the sliders and month
\* buttons get theirs in initializeDateFilters.
HandlerRegistered ==
  lastEvent.kind \in {"start", "end", "month"} => listenersAttached

SomeDisplayedPhotoRemains ==
  \E i \in DOMAIN currentClusterPhotos :
     \E j \in DOMAIN filteredPhotos' :
        filteredPhotos'[j].filename = currentClusterPhotos[i].filename

\* C10: a filter action resets the photo viewer to its placeholder and
\* empties the current-cluster photo list when a cluster is displayed and
\* none of its photos, matched by filename, is in the new active subset;
\* otherwise it leaves both unchanged.
DetailViewInvalidation ==
  [][Viewing /\ lastEvent'.kind \in FilterKinds =>
       IF currentClusterPhotos # <<>> /\ ~SomeDisplayedPhotoRemains
       THEN currentClusterPhotos' = <<>> /\ photoViewer' = "placeholder"
       ELSE currentClusterPhotos' = currentClusterPhotos
            /\ photoViewer' = photoViewer]_vars

\* C10 witness: a filter action emptied the viewer of a displayed cluster
\* while other photos stay in the active subset.
DetailViewInvalidationWitness ==
  /\ AfterFilterAction
  /\ lastEvent.invalidated
  /\ photoViewer = "placeholder"
  /\ currentClusterPhotos = <<>>
  /\ filteredPhotos # <<>>

\* The photos without a timestamp come first, the others follow by
\* ascending timestamp.
OrderedByTimestamp(photos) ==
  \A i, j \in DOMAIN photos :
     i < j =>
       /\ ~(Truthy(photos[i].datetime_taken) /\ ~Truthy(photos[j].datetime_taken))
       /\ (Truthy(photos[i].datetime_taken) /\ Truthy(photos[j].datetime_taken)) =>
             Val(photos[i].datetime_taken) <= Val(photos[j].datetime_taken)

IndexPermutations(n) ==
  {f \in [1..n -> 1..n] : \A i, j \in 1..n : i # j => f[i] # f[j]}

\* The rows in every order.
Orderings(rows) ==
  {[i \in DOMAIN rows |-> rows[f[i]]] : f \in IndexPermutations(Len(rows))}

\* A cluster list as a set of clusters: member set and center of each.
ClusterSet(clusters) ==
  {[members |-> Range(clusters[c].photos),
    center_lat |-> clusters[c].center_lat,
    center_lon |-> clusters[c].center_lon] : c \in DOMAIN clusters}

\* C12: group_photos_by_proximity returns the same set of clusters (member
\* sets and centers) for every order of the records of a collection, wherever
\* it returns for both orders.
OrderIrrelevance ==
  Built =>
    \A permuted \in Orderings(df) :
       LET result == group_photos_by_proximity(permuted, proximity_threshold)
       IN ~result.raised => ClusterSet(result.clusters) = ClusterSet(photoClusters)

\* The call of the build pass on the scenario dataset has returned or raised.
ScenarioBuilt ==
  /\ call.fn = "cluster"
  /\ call.rows = ScenarioPhotos
  /\ call.threshold = ScenarioThreshold
  /\ call.build # Null

RECURSIVE DeselectAllBut(_, _, _)
DeselectAllBut(v, keep, m) ==
  IF m > 11 THEN v
  ELSE IF m = keep \/ m \notin v.selectedMonths THEN DeselectAllBut(v, keep, m + 1)
  ELSE DeselectAllBut(monthButtonClick(v, m), keep, m + 1)

EmptyDataset ==
  df = <<>> =>
    /\ pc # "build_failed"
    /\ Built => photoClusters = <<>>
    /\ Viewing => /\ ~lastEvent.threw
                  /\ filteredPhotos = <<>>
                  /\ currentMarkers = <<>>

\* A script has ended, by returning or by sys.exit.
Terminated(script) == deployment.script = script /\ deployment.step = "exit"

\* C16: src/deploy.py commits and pushes gh-pages before it returns whenever
\* staged changes exist after 'git add .', and goes without a commit only when
\* nothing is staged.
RootDeployPublishes ==
  deployment.script = "deploy.py" =>
    /\ deployment.step \in {"restore", "exit"} /\ deployment.stagedAfterAdd =>
          deployment.committed
    /\ deployment.exit = <<0>> /\ deployment.stagedAfterAdd => deployment.pushed
    /\ deployment.committed => deployment.stagedAfterAdd

\* C17: src/treepics-map/deploy.py commits, pushes and goes on to its final
\* steps whenever 'git diff --staged --quiet' reports changes, and with
\* nothing staged it does not commit and goes on to its final steps as well.
MapDeployPublishes ==
  deployment.script = "treepics-map/deploy.py" =>
    /\ deployment.step \in {"restore", "exit"} /\ deployment.stagedAfterAdd =>
          /\ deployment.committed
          /\ deployment.pushed \/ ~deployment.pushOk
          /\ deployment.pushed => deployment.step = "restore" \/ deployment.exit = <<0>>
    /\ deployment.committed => deployment.stagedAfterAdd

\* |lat - lat'| <= t and |lon - lon'| <= t.
PerAxisTest(a, b, t) ==
  /\ Abs(a.latitude - b.latitude) <= t
  /\ Abs(a.longitude - b.longitude) <= t

\* sqrt(dlat^2 + dlon^2) <= t.
RadialTest(a, b, t) ==
  (a.latitude - b.latitude) * (a.latitude - b.latitude)
    + (a.longitude - b.longitude) * (a.longitude - b.longitude) <= t * t

\* The positions in rows of the members of a cluster.
MemberIndices(cluster, rows) ==
  {i \in DOMAIN rows : rows[i] \in Range(cluster.photos)}

\* The position of the record that opened the cluster: its first member in
\* iteration order.
SeedIndex(cluster, rows) ==
  CHOOSE s \in MemberIndices(cluster, rows) :
     \A i \in MemberIndices(cluster, rows) : s <= i

\* Every cluster is its seed and exactly the records that pass the test
\* against the seed and are in no cluster opened before it; within[s, j] is
\* the test of record j against record s.
AbsorbsFromSeed(clusters, rows, within) ==
  \A c \in DOMAIN clusters :
     LET s == SeedIndex(clusters[c], rows)
         before == {e \in DOMAIN clusters : SeedIndex(clusters[e], rows) < s}
         taken == UNION {MemberIndices(clusters[e], rows) : e \in before}
     IN MemberIndices(clusters[c], rows)
          = {s} \cup {j \in DOMAIN rows \ (taken \cup {s}) : within[s, j]}

\* The member sets of a cluster list.
Partition(clusters) == {Range(clusters[c].photos) : c \in DOMAIN clusters}

\* C18: the build pass groups by the per-axis test against the seed and the
\* view pass by the radial test against the seed, both inclusive of the
\* threshold itself; every record the view pass's test groups with a seed the
\* build pass's test groups with that seed too, so the first cluster of the
\* view pass lies within the first cluster of the build pass.
MetricAsymmetry ==
  call.fn = "cluster" =>
    LET rows == call.rows
        t == call.threshold
        built == call.build # Null /\ ~Val(call.build).raised
    IN /\ built =>
            AbsorbsFromSeed(Val(call.build).clusters, rows,
                            [s, j \in DOMAIN rows |-> PerAxisTest(rows[s], rows[j], t)])
       /\ call.view # Null =>
            AbsorbsFromSeed(Val(call.view), rows,
                            [s, j \in DOMAIN rows |-> RadialTest(rows[s], rows[j], t)])
       /\ \A s, j \in DOMAIN rows :
             WithinDistance(rows[s], rows[j], t) => WithinProximity(rows[s], rows[j], t)
       /\ built /\ call.view # Null /\ rows # <<>> =>
            \E b \in DOMAIN Val(call.build).clusters :
               \E v \in DOMAIN Val(call.view) :
                  /\ rows[1] \in Range(Val(call.view)[v].photos)
                  /\ Range(Val(call.view)[v].photos)
                       \subseteq Range(Val(call.build).clusters[b].photos)

\* C18 witness: both passes ran on the same rows with the same threshold and
\* returned different partitions, the rows holding a record offset from the
\* first one by exactly the threshold on both axes.
MetricAsymmetryWitness ==
  /\ call.fn = "cluster"
  /\ call.build # Null
  /\ call.view # Null
  /\ ~Val(call.build).raised
  /\ Partition(Val(call.build).clusters) # Partition(Val(call.view))
  /\ \E j \in DOMAIN call.rows :
        /\ Abs(call.rows[1].latitude - call.rows[j].latitude) = call.threshold
        /\ Abs(call.rows[1].longitude - call.rows[j].longitude) = call.threshold

\* The markers of the freshly loaded page after a zoom change to the zoom
\* level: the event sequence load, zoom.
FreshMarkers(zoom) ==
  zoomEnd(initializeMap([View EXCEPT !.sliderStart = 0, !.sliderEnd = 100,
                                     !.selectedMonths = AllMonths],
                        photoClusters),
          zoom).currentMarkers

\* C19: the displayed clusters are the clustering of the current active
\* subset at the current zoom level, whatever events came before; whenever
\* the filter state is back at sliders 0 and 100 with all months selected,
\* they are the clusters the freshly loaded page shows at that zoom level,
\* which has the same filter state.
HistoryIndependence ==
  Viewing =>
    /\ currentMarkers =
         Map(performDynamicClustering(filteredPhotos,
                                      getClusteringThreshold(currentZoom)),
             Marker)
    /\ NoFiltersActive => currentMarkers = FreshMarkers(currentZoom)

\* getMarkerSize has returned for the photo count of the call.
MarkerSized == call.fn = "getMarkerSize" /\ call.size # Null

\* C20: getMarkerSize(n) is 20 for n = 1, 25 for 2..5, 30 for 6..10, 35 for
\* 11..20 and 40 above 20, and never decreases as n grows.
MarkerSizeTiers ==
  MarkerSized =>
    LET n == call.photoCount
        size == Val(call.size)
    IN /\ n = 1 => size = 20
       /\ 2 <= n /\ n <= 5 => size = 25
       /\ 6 <= n /\ n <= 10 => size = 30
       /\ 11 <= n /\ n <= 20 => size = 35
       /\ n > 20 => size = 40
       /\ \A m \in 1..n : getMarkerSize(m) <= size

\* C20 witness: getMarkerSize returned for a count on the upper edge of a
\* tier.
MarkerSizeTiersWitness ==
  /\ MarkerSized
  /\ call.photoCount \in {5, 10, 20}
  /\ Val(call.size) < getMarkerSize(call.photoCount + 1)

\* getMarkerFontSize has returned for the photo count of the call.
FontSized == call.fn = "getMarkerFontSize" /\ call.fontSize # Null

\* C21: for a photo count n with marker size m = getMarkerSize(n) the label
\* font size is max(8, floor(f)), where f is 0.4 * m for an n of at most two
\* digits and 0.8 * 0.4 * m for an n of more; a marker of one photo (m = 20)
\* gets the font size 8.
LabelFontSize ==
  FontSized =>
    LET n == call.photoCount
        m == getMarkerSize(n)
        f100 == IF n < 100 THEN 40 * m ELSE 32 * m
    IN /\ call.markerSize = m
       /\ Val(call.fontSize) = Max(8, f100 \div 100)
       /\ n = 1 => Val(call.fontSize) = 8

\* The collection is not empty and none of its photos has a timestamp.
UndatedDataset ==
  /\ df # <<>>
  /\ \A i \in DOMAIN df : ~Truthy(df[i].datetime_taken)

MonthToggled == call.fn = "toggleMonth" /\ call.threw # Null

\* The index, brought into 0..11.
ClampMonth(monthIndex) == Max(0, Min(11, monthIndex))

\* C23: the selected months are a subset of 0..11 and both slider positions
\* are integers in 0..100 in every state, all twelve months are selected by
\* default, and a month index outside 0..11 passed to toggleMonth is clamped
\* into 0..11: the call ends without an error and toggles the clamped month,
\* so that nothing outside 0..11 is stored.
InputRangeSafety ==
  /\ selectedMonths \subseteq AllMonths
  /\ sliderStart \in 0..100
  /\ sliderEnd \in 0..100
  /\ pc \in {"build", "call"} => selectedMonths = AllMonths
  /\ MonthToggled =>
       /\ ~Val(call.threw)
       /\ Val(call.selectedMonths) \subseteq AllMonths
       /\ Val(call.selectedMonths) =
            IF ClampMonth(call.monthIndex) \in call.selection
            THEN call.selection \ {ClampMonth(call.monthIndex)}
            ELSE call.selection \cup {ClampMonth(call.monthIndex)}

\* C24: clearAllFilters leaves the start slider at 0, the end slider at 100
\* and all twelve months selected, with the filter applied again and the
\* clear-filters button disabled; after every other filter action the button
\* is enabled iff the start slider is above 0, the end slider is below 100 or
\* fewer than twelve months are selected.
ClearFiltersReset ==
  /\ Viewing /\ lastEvent.kind = "clearFilters" =>
       /\ ~lastEvent.threw
       /\ NoFiltersActive
       /\ filteredPhotos =
            SelectSeq(allPhotos,
                      LAMBDA photo : PassesFilter(photo,
                                                  [startDate |-> Null, endDate |-> Null],
                                                  AllMonths))
       /\ clearDisabled
  /\ AfterFilterAction /\ lastEvent.kind # "clearFilters" =>
       (~clearDisabled <=>
          sliderStart > 0 \/ sliderEnd < 100 \/ Cardinality(selectedMonths) < 12)

\* src/deploy.py has left its first checks behind in an environment that
\* fails one of them.
RootPreconditionFailed ==
  /\ deployment.script = "deploy.py"
  /\ deployment.step # "start"
  /\ \/ ~deployment.isGitRepo
     \/ ~deployment.siteExists
     \/ ~deployment.indexExists
     \/ deployment.dirty

\* C25: when 'git status --porcelain' reports a change, or the directory is
\* no git repository, or the generated site or its index.html is missing,
\* src/deploy.py exits with status 1 before it fetches, checks out gh-pages or
\* replaces any file: the branch and the working tree are as they were.
DirtyTreeAbort ==
  RootPreconditionFailed =>
    /\ deployment.step = "exit"
    /\ deployment.exit = <<1>>
    /\ ~deployment.fetchRun
    /\ deployment.branch = "current_branch"
    /\ ~deployment.filesReplaced
    /\ ~deployment.staged
    /\ ~deployment.committed
    /\ ~deployment.pushed

\* C25 witness: the script has exited in a git repository that holds the
\* generated site and a gh-pages branch that differs from it, stopped by
\* nothing but an uncommitted change.
DirtyTreeAbortWitness ==
  /\ RootPreconditionFailed
  /\ deployment.step = "exit"
  /\ deployment.dirty
  /\ deployment.isGitRepo /\ deployment.siteExists /\ deployment.indexExists
  /\ deployment.localBranch /\ deployment.differs /\ deployment.fetchOk

\* The seeds of two distinct clusters fail the test against each other, and
\* every record is a member of the cluster whose seed is the first one in
\* iteration order that the record passes the test against.
SeedsSeparate(clusters, rows, within) ==
  /\ \A c, e \in DOMAIN clusters :
        c # e => ~within[SeedIndex(clusters[c], rows), SeedIndex(clusters[e], rows)]
  /\ \A j \in DOMAIN rows :
        \E c \in DOMAIN clusters :
           /\ j \in MemberIndices(clusters[c], rows)
           /\ within[SeedIndex(clusters[c], rows), j]
           /\ \A e \in DOMAIN clusters :
                 SeedIndex(clusters[e], rows) < SeedIndex(clusters[c], rows) =>
                   ~within[SeedIndex(clusters[e], rows), j]

\* C26: in the output of either pass the seeds of two distinct clusters are
\* farther apart than the threshold under the pass's test (build: an axis
\* difference above the threshold; view: a Euclidean distance above it), and
\* every record is in the cluster of the earliest-iterated seed within the
\* threshold of it.
SeedSeparation ==
  call.fn = "cluster" =>
    LET rows == call.rows
        t == call.threshold
    IN /\ call.build # Null /\ ~Val(call.build).raised =>
            SeedsSeparate(Val(call.build).clusters, rows,
                          [s, j \in DOMAIN rows |->
                             /\ Abs(rows[s].latitude - rows[j].latitude) <= t
                             /\ Abs(rows[s].longitude - rows[j].longitude) <= t])
       /\ call.view # Null =>
            SeedsSeparate(Val(call.view), rows,
                          [s, j \in DOMAIN rows |-> RadialTest(rows[s], rows[j], t)])

\* C26 witness: both passes returned, the view pass with several clusters and
\* a record within the threshold of the seeds of two of them.
SeedSeparationWitness ==
  /\ call.fn = "cluster"
  /\ call.build # Null
  /\ call.view # Null
  /\ ~Val(call.build).raised
  /\ \E c, e \in DOMAIN Val(call.view) :
        /\ c # e
        /\ \E j \in DOMAIN call.rows :
              /\ RadialTest(call.rows[SeedIndex(Val(call.view)[c], call.rows)],
                            call.rows[j], call.threshold)
              /\ RadialTest(call.rows[SeedIndex(Val(call.view)[e], call.rows)],
                            call.rows[j], call.threshold)

\* Every cluster counts the entries of its photo list, at least one, and the
\* counts add up to n.
CountsConsistent(clusters, n) ==
  /\ \A c \in DOMAIN clusters :
        /\ clusters[c].photo_count = Len(clusters[c].photos)
        /\ clusters[c].photo_count >= 1
  /\ SumSeq([c \in DOMAIN clusters |-> clusters[c].photo_count]) = n

\* C27: every cluster of the build pass and of the view pass has a
\* photo_count equal to the length of its photo list and at least 1, and the
\* photo_counts add up to the number of input records: the size of the
\* collection at build time, the size of the active subset at view time.
CountConsistency ==
  /\ Built => CountsConsistent(photoClusters, Len(df))
  /\ Viewing => CountsConsistent(DisplayedClusters, Len(filteredPhotos))

\* C27 witness: the page shows a cluster of several photos over an active
\* subset smaller than the collection, which the build clustered into a
\* cluster of several photos and another.
CountConsistencyWitness ==
  /\ Viewing
  /\ Len(filteredPhotos) < Len(allPhotos)
  /\ \E m \in DOMAIN currentMarkers : currentMarkers[m].cluster.photo_count > 1
  /\ Len(photoClusters) > 1
  /\ \E c \in DOMAIN photoClusters : photoClusters[c].photo_count > 1

\* a is a sub-collection of b in the same relative order.
IsSubCollection(a, b) ==
  \E idx \in SUBSET DOMAIN b : a = Pick(b, idx, 1)

\* C28: a zoom-changed event changes the current zoom and the displayed
\* markers and nothing else of the view state: the full photo list, the
\* active subset, the slider positions and the selected months stay as they
\* were; a filter action leaves the full photo list, the timeline bounds and
\* the current zoom as they were; and the active subset is always a
\* sub-collection of the full photo list in the same relative order.
FrameConditions ==
  /\ [](Viewing => IsSubCollection(filteredPhotos, allPhotos))
  /\ [][Viewing /\ lastEvent'.kind = "zoom" =>
          /\ currentZoom' = lastEvent'.arg
          /\ UNCHANGED <<allPhotos, filteredPhotos, sliderStart, sliderEnd,
                         selectedMonths, timelineStart, timelineEnd,
                         currentClusterPhotos, photoViewer, clearDisabled>>]_vars
  /\ [][Viewing /\ lastEvent'.kind \in FilterKinds =>
          UNCHANGED <<allPhotos, timelineStart, timelineEnd, currentZoom>>]_vars

\* C28 witness: a zoom change to another level on a page whose sliders and
\* months keep some photos of the collection and drop others.
FrameConditionsWitness ==
  /\ Viewing
  /\ lastEvent.kind = "zoom"
  /\ currentZoom # 10
  /\ sliderStart > 0
  /\ selectedMonths # AllMonths
  /\ filteredPhotos # <<>>
  /\ Len(filteredPhotos) < Len(allPhotos)

\* The modal is displayed with a photo in it.
ModalShowsPhoto == gallery.modal = "block" /\ gallery.image # Null

\* C29: under every interleaving of marker clicks, thumbnail clicks, gallery
\* navigation and filter actions, whenever the current-cluster photo list is
\* not empty and the modal shows a photo, currentPhotoIndex is at least 0 and
\* below the length of the list; navigateGallery past either end of the list
\* leaves the index as it was.
GalleryIndexBounds ==
  /\ [](Viewing /\ currentClusterPhotos # <<>> /\ ModalShowsPhoto =>
          /\ gallery.currentPhotoIndex >= 0
          /\ gallery.currentPhotoIndex < Len(currentClusterPhotos))
  /\ [][Viewing /\ lastEvent'.kind = "navigate"
          /\ gallery.currentPhotoIndex + lastEvent'.arg
               \notin 0..(Len(currentClusterPhotos) - 1) =>
          gallery'.currentPhotoIndex = gallery.currentPhotoIndex]_vars

\* C30: in both deploy scripts every run that has checked out gh-pages ends,
\* by returning or by sys.exit, after a failing git command and after staged
\* changes were detected as well, with the repository on the branch that was
\* current when the script started.
ReturnToOriginalBranch ==
  \A script \in {"deploy.py", "treepics-map/deploy.py"} :
     Terminated(script) => deployment.branch = "current_branch"

====
